---- MODULE Spec2Model ----
(***************************************************************************)
(* Model of app.py (Leitor de Manifestos Jadlog): the field extraction     *)
(* pipeline process_pdf, its pure helpers and the batch loop over the      *)
(* uploaded files.                                                         *)
(*                                                                         *)
(* Text is a sequence of code points.  An ASCII code point is the          *)
(* one-character string itself; the few non-ASCII code points the inputs   *)
(* use are named ("E_ACUTE", "ORD_MASC", ...).  Regular expressions are     *)
(* data (a sequence of parts) run by a backtracking matcher with the       *)
(* priorities of Python's re module: greedy before lazy, alternatives      *)
(* left to right, leftmost match first.                                    *)
(***************************************************************************)
EXTENDS Integers, Sequences, FiniteSets, TLC

VARIABLES
    pc,                  \* control position of the routine being run
    s, amount,           \* try_parse_amount: argument and returned value
    full_text, extracted,\* extract_manifesto_destino_from_text: argument, result
    files, idx, linhas,  \* batch loop: uploaded files, loop index, session rows
    out,                 \* process_pdf: the record being filled
    pages_txt, images,   \* process_pdf: native page texts, rasterized pages
    page_i, total_volumes, ocr_texts_per_page,  \* process_pdf: volume loop
    last_text, candidates, \* process_pdf: value candidates
    engine_calls,        \* history: OCR engine invocations <<page, psm>>
    quick_calls,         \* history: ocr_page_quick invocations <<page, step>>
    field_src            \* history: which source filled each field of out

vars == <<pc, s, amount, full_text, extracted, files, idx, linhas, out,
          pages_txt, images, page_i, total_volumes, ocr_texts_per_page,
          last_text, candidates, engine_calls, quick_calls, field_src>>

----------------------------------------------------------------------------
(* Code points and strings                                                 *)

Chars(str) == [i \in 1..Len(str) |-> SubSeq(str, i, i)]

Digits == {"0", "1", "2", "3", "4", "5", "6", "7", "8", "9"}
UpperSeq == Chars("ABCDEFGHIJKLMNOPQRSTUVWXYZ")
LowerSeq == Chars("abcdefghijklmnopqrstuvwxyz")
UpperSet == {UpperSeq[i] : i \in 1..Len(UpperSeq)}
LowerSet == {LowerSeq[i] : i \in 1..Len(LowerSeq)}
\* Non-ASCII code points of the inputs: E acute, A tilde, C cedilla (upper
\* case letters) and the masculine ordinal indicator.
Accented == {"E_ACUTE", "A_TILDE", "C_CEDILLA"}
\* \s and \w of Python's re on str patterns
Space == {" ", "\n", "\t"}
WordChars == Digits \cup UpperSet \cup LowerSet \cup Accented \cup {"ORD_MASC", "_"}

SeqToSet(q) == {q[i] : i \in 1..Len(q)}

RECURSIVE Remove(_, _)
Remove(q, set) ==
    IF q = <<>> THEN <<>>
    ELSE IF Head(q) \in set THEN Remove(Tail(q), set)
    ELSE <<Head(q)>> \o Remove(Tail(q), set)

ReplaceChar(q, a, b) == [i \in 1..Len(q) |-> IF q[i] = a THEN b ELSE q[i]]

\* str.rfind of a single character: the last index, 0 when absent (Python's
\* -1 with 0-based indices; the order of two results is the same)
rfind(q, c) ==
    LET at == {i \in 1..Len(q) : q[i] = c}
    IN  IF at = {} THEN 0 ELSE CHOOSE i \in at : \A j \in at : j <= i

RECURSIVE LStrip(_)
LStrip(q) == IF q # <<>> /\ Head(q) \in Space THEN LStrip(Tail(q)) ELSE q
RECURSIVE RStrip(_)
RStrip(q) ==
    IF q # <<>> /\ q[Len(q)] \in Space THEN RStrip(SubSeq(q, 1, Len(q) - 1)) ELSE q
Strip(q) == RStrip(LStrip(q))

\* str.upper on the code points of the inputs
UpperOf(c) ==
    IF c \in LowerSet THEN UpperSeq[CHOOSE i \in 1..Len(LowerSeq) : LowerSeq[i] = c]
    ELSE c
ToUpper(q) == [i \in 1..Len(q) |-> UpperOf(q[i])]

\* unicodedata.normalize("NFKD", s) with the combining marks dropped: each
\* accented letter decomposes to its base letter plus a combining mark, the
\* ordinal indicator to the letter o
NormalizeChar(c) ==
    CASE c = "E_ACUTE" -> "E"
      [] c = "A_TILDE" -> "A"
      [] c = "C_CEDILLA" -> "C"
      [] c = "ORD_MASC" -> "o"
      [] OTHER -> c
normalize(q) == [i \in 1..Len(q) |-> NormalizeChar(q[i])]

RECURSIVE DigitsToInt(_)
DigitsToInt(q) ==
    IF q = <<>> THEN 0
    ELSE 10 * DigitsToInt(SubSeq(q, 1, Len(q) - 1))
         + (CHOOSE d \in 0..9 : Chars("0123456789")[d + 1] = q[Len(q)])

RECURSIVE IntToChars(_)
IntToChars(n) ==
    IF n < 10 THEN <<Chars("0123456789")[n + 1]>>
    ELSE IntToChars(n \div 10) \o <<Chars("0123456789")[(n % 10) + 1]>>

\* "\n".join(lines) and str.splitlines on "\n"
RECURSIVE JoinLines(_)
JoinLines(ls) ==
    IF ls = <<>> THEN <<>>
    ELSE IF Len(ls) = 1 THEN ls[1]
    ELSE ls[1] \o <<"\n">> \o JoinLines(Tail(ls))

RECURSIVE SplitLines(_)
SplitLines(q) ==
    IF q = <<>> THEN <<>>
    ELSE LET nl == {i \in 1..Len(q) : q[i] = "\n"}
         IN  IF nl = {} THEN <<q>>
             ELSE LET k == CHOOSE i \in nl : \A j \in nl : i <= j
                  IN  <<SubSeq(q, 1, k - 1)>> \o SplitLines(SubSeq(q, k + 1, Len(q)))

\* s in line, for str
Contains(line, sub) ==
    \E i \in 1..(Len(line) - Len(sub) + 1) : SubSeq(line, i, i + Len(sub) - 1) = sub

----------------------------------------------------------------------------
(* Regular expressions (re.search, re.finditer, re.findall)                *)

WB == [t |-> "wb"]                                   \* \b
BOS == [t |-> "bos"]                                 \* ^ (no re.M)
Lit(str) == [t |-> "lit", cs |-> Chars(str)]
\* a character class repeated lo..hi times; hi = -1 is unbounded
Cls(set, lo, hi) == [t |-> "cls", set |-> set, lo |-> lo, hi |-> hi, greedy |-> TRUE]
LazyCls(set, lo, hi) == [t |-> "cls", set |-> set, lo |-> lo, hi |-> hi, greedy |-> FALSE]
Alt(alts) == [t |-> "alt", alts |-> alts]            \* (?:a|b|...)
Rep(sub, lo, hi) == [t |-> "rep", sub |-> sub, lo |-> lo, hi |-> hi]  \* (?:sub){lo,hi}
Open(n) == [t |-> "open", n |-> n]                   \* ( of group n
Close(n) == [t |-> "close", n |-> n]                 \* ) of group n

NoMatch == [ok |-> FALSE, start |-> 0, end |-> 0, caps |-> <<>>]

IsBoundary(q, i) ==
    (i > 1 /\ q[i - 1] \in WordChars) # (i <= Len(q) /\ q[i] \in WordChars)

RECURSIVE RunLen(_, _, _, _)
RunLen(q, i, set, hi) ==
    IF hi = 0 \/ i > Len(q) THEN 0
    ELSE IF q[i] \notin set THEN 0
    ELSE 1 + RunLen(q, i + 1, set, hi - 1)

RECURSIVE MatchFrom(_, _, _)
RECURSIVE TryCls(_, _, _, _, _, _, _)
RECURSIVE TryAlt(_, _, _, _, _)

\* The first way, in the matcher's priority order, that parts match q from
\* position i on.
MatchFrom(parts, q, i) ==
    IF parts = <<>> THEN [ok |-> TRUE, start |-> i, end |-> i, caps |-> <<>>]
    ELSE LET p == Head(parts)
             rest == Tail(parts)
         IN  CASE p.t = "wb" -> IF IsBoundary(q, i) THEN MatchFrom(rest, q, i) ELSE NoMatch
               [] p.t = "bos" -> IF i = 1 THEN MatchFrom(rest, q, i) ELSE NoMatch
               [] p.t = "lit" ->
                    IF i + Len(p.cs) - 1 <= Len(q) /\ SubSeq(q, i, i + Len(p.cs) - 1) = p.cs
                    THEN MatchFrom(rest, q, i + Len(p.cs))
                    ELSE NoMatch
               [] p.t \in {"open", "close"} ->
                    LET r == MatchFrom(rest, q, i)
                    IN  IF r.ok THEN [r EXCEPT !.caps = <<<<p.t, p.n, i>>>> \o @] ELSE NoMatch
               [] p.t = "cls" ->
                    LET r == RunLen(q, i, p.set, p.hi)
                    IN  IF r < p.lo THEN NoMatch
                        ELSE TryCls(rest, q, i, IF p.greedy THEN r ELSE p.lo, p.lo, r, p.greedy)
               [] p.t = "alt" -> TryAlt(p.alts, 1, rest, q, i)
               [] p.t = "rep" ->
                    LET more == IF p.hi = 0 THEN NoMatch
                                ELSE MatchFrom(
                                       p.sub \o <<Rep(p.sub,
                                                      IF p.lo > 0 THEN p.lo - 1 ELSE 0,
                                                      IF p.hi > 0 THEN p.hi - 1 ELSE p.hi)>>
                                             \o rest, q, i)
                    IN  IF more.ok THEN more
                        ELSE IF p.lo = 0 THEN MatchFrom(rest, q, i)
                        ELSE NoMatch

TryCls(rest, q, i, n, lo, hi, greedy) ==
    LET m == MatchFrom(rest, q, i + n)
    IN  IF m.ok THEN m
        ELSE IF greedy /\ n > lo THEN TryCls(rest, q, i, n - 1, lo, hi, greedy)
        ELSE IF ~greedy /\ n < hi THEN TryCls(rest, q, i, n + 1, lo, hi, greedy)
        ELSE NoMatch

TryAlt(alts, k, rest, q, i) ==
    IF k > Len(alts) THEN NoMatch
    ELSE LET m == MatchFrom(alts[k] \o rest, q, i)
         IN  IF m.ok THEN m ELSE TryAlt(alts, k + 1, rest, q, i)

\* re.search from position i on: the leftmost match
RECURSIVE SearchFrom(_, _, _)
SearchFrom(parts, q, i) ==
    IF i > Len(q) + 1 THEN NoMatch
    ELSE LET m == MatchFrom(parts, q, i)
         IN  IF m.ok THEN [m EXCEPT !.start = i] ELSE SearchFrom(parts, q, i + 1)

Search(parts, q) == SearchFrom(parts, q, 1)
\* re.search(..., re.I) for a pattern written in upper case
SearchI(parts, q) == SearchFrom(parts, ToUpper(q), 1)

\* re.finditer: the successive non-overlapping matches, left to right
RECURSIVE FindIterFrom(_, _, _)
FindIterFrom(parts, q, i) ==
    LET m == SearchFrom(parts, q, i)
    IN  IF ~m.ok THEN <<>>
        ELSE <<m>> \o FindIterFrom(parts, q, IF m.end > m.start THEN m.end ELSE m.end + 1)
FindIter(parts, q) == FindIterFrom(parts, q, 1)

\* m.group(n) and m.group(0)
Group(q, m, n) ==
    LET o == CHOOSE k \in 1..Len(m.caps) : m.caps[k][1] = "open" /\ m.caps[k][2] = n
        c == CHOOSE k \in 1..Len(m.caps) : m.caps[k][1] = "close" /\ m.caps[k][2] = n
    IN  SubSeq(q, m.caps[o][3], m.caps[c][3] - 1)
Whole(q, m) == SubSeq(q, m.start, m.end - 1)

----------------------------------------------------------------------------
(* try_parse_amount                                                        *)

\* A float is kept as an exact decimal: n / 10^d, with no trailing zero in
\* the fraction.  None is ok = FALSE.
None == [ok |-> FALSE, n |-> 0, d |-> 0]
RECURSIVE Dec(_, _)
Dec(n, d) ==
    IF d > 0 /\ n % 10 = 0 THEN Dec(n \div 10, d - 1) ELSE [ok |-> TRUE, n |-> n, d |-> d]

\* float(str) on a string of digits and dots: a ValueError (None, under the
\* callers' try/except) unless it holds at most one dot and at least one digit
PyFloat(q) ==
    LET dots == {i \in 1..Len(q) : q[i] = "."}
    IN  IF Cardinality(dots) > 1 \/ Remove(q, {"."}) = <<>> THEN None
        ELSE IF dots = {} THEN Dec(DigitsToInt(q), 0)
        ELSE Dec(DigitsToInt(Remove(q, {"."})), Len(q) - (CHOOSE i \in dots : TRUE))

try_parse_amount_swapped(str) ==
    IF str = <<>> THEN None
    ELSE LET stripped == Remove(Strip(str), {" "})
             cur == Remove(stripped, SeqToSet(stripped) \ (Digits \cup {".", ","}))
         IN  IF "." \in SeqToSet(cur) /\ "," \in SeqToSet(cur)
             THEN IF rfind(cur, ",") < rfind(cur, ".")
                  THEN PyFloat(ReplaceChar(Remove(cur, {"."}), ",", "."))
                  ELSE PyFloat(Remove(cur, {","}))
             ELSE IF "," \in SeqToSet(cur)
             THEN PyFloat(ReplaceChar(Remove(cur, {"."}), ",", "."))
             ELSE PyFloat(cur)

try_parse_amount(str) ==
    IF str = <<>> THEN None
    ELSE LET stripped == Remove(Strip(str), {" "})
             \* re.sub(r"[^\d\.,]", "", cur)
             cur == Remove(stripped, SeqToSet(stripped) \ (Digits \cup {".", ","}))
         IN  IF "." \in SeqToSet(cur) /\ "," \in SeqToSet(cur)
             THEN IF rfind(cur, ",") > rfind(cur, ".")
                  THEN PyFloat(ReplaceChar(Remove(cur, {"."}), ",", "."))
                  ELSE PyFloat(Remove(cur, {","}))
             ELSE IF "," \in SeqToSet(cur) /\ "." \notin SeqToSet(cur)
             THEN PyFloat(ReplaceChar(Remove(cur, {"."}), ",", "."))
             ELSE IF "." \in SeqToSet(cur) /\ "," \notin SeqToSet(cur)
             THEN PyFloat(Remove(cur, {","}))
             ELSE PyFloat(cur)

----------------------------------------------------------------------------
(* Static tables                                                           *)

\* ROTA_CO_MAP, in the dict's insertion order
ROTA_CO_MAP ==
    << <<"S27", "CO RIO DE JANEIRO 05">>, <<"S28", "CO RIO DE JANEIRO 04">>,
       <<"S30", "CO RIO DE JANEIRO 01">>, <<"S32", "CO RIO DE JANEIRO 03">>,
       <<"S38", "CO RIO DE JANEIRO 06">>, <<"S41", "CO RIO DE JANEIRO 08">>,
       <<"S49", "CO RIO DE JANEIRO 07">> >>

UF_VALIDAS ==
    {"AC", "AL", "AM", "AP", "BA", "CE", "DF", "ES", "GO", "MA", "MG", "MS",
     "MT", "PA", "PB", "PE", "PI", "PR", "RJ", "RN", "RO", "RR", "RS",
     "SC", "SE", "SP", "TO"}
UfValida(uf) == \E u \in UF_VALIDAS : Chars(u) = uf

MESES == <<"JAN", "FEV", "MAR", "ABR", "MAI", "JUN",
           "JUL", "AGO", "SET", "OUT", "NOV", "DEZ">>

----------------------------------------------------------------------------
(* extract_data_hora_from_head                                             *)

PatDataHora ==
    <<WB, Open(1), Cls(Digits, 1, 2), Close(1), Cls(Space, 1, -1),
      Open(2), Alt([k \in 1..Len(MESES) |-> <<Lit(MESES[k])>>]), Close(2),
      Cls(Space, 1, -1), Open(3), Cls(Digits, 4, 4), Close(3), Cls(Space, 1, -1),
      Open(4), Cls(Digits, 2, 2), Lit(":"), Cls(Digits, 2, 2), Lit(":"),
      Cls(Digits, 2, 2), Close(4)>>

\* f"{n:02d}"
Pad2(n) == IF n < 10 THEN <<"0">> \o IntToChars(n) ELSE IntToChars(n)

\* returns <<date, hora>>
extract_data_hora_from_head(first_page_text) ==
    LET cab == normalize(first_page_text)
        m == SearchI(PatDataHora, cab)
    IN  IF ~m.ok THEN << <<>>, <<>> >>
        ELSE LET dia == Group(cab, m, 1)
                 mes_txt == ToUpper(Group(cab, m, 2))
                 ano == Group(cab, m, 3)
                 hora == Group(cab, m, 4)
                 mes == CHOOSE k \in 1..Len(MESES) : Chars(MESES[k]) = mes_txt
             IN  << Pad2(DigitsToInt(dia)) \o <<"/">> \o Pad2(mes) \o <<"/">> \o ano, hora >>

----------------------------------------------------------------------------
(* extract_manifesto_destino_from_text                                     *)

PatNumero ==
    <<WB,
      Alt(<< <<Lit("NUM"), Cls({"E", "E_ACUTE"}, 1, 1), Lit("RO")>>,
             <<Lit("N"), Cls({"ORD_MASC", "O"}, 1, 1)>> >>),
      Cls(Space, 0, -1), Cls({":", "-"}, 0, 1), Cls(Space, 0, -1),
      Open(1), Cls(Digits, 8, -1), Close(1)>>

PatDigitRun == <<WB, Open(1), Cls(Digits, 10, 15), Close(1), WB>>

PatRota ==
    <<WB, Lit("S"), Cls(Space, 0, -1), Cls({"-", "/"}, 0, 1), Cls(Space, 0, -1),
      Cls({"0"}, 0, -1), Open(1), Cls(Digits, 1, 2), Close(1), WB>>

\* fr"S\s*[-\/]?\s*0*{k[1:]}" for a key k of ROTA_CO_MAP
PatRotaKey(k) ==
    <<Lit("S"), Cls(Space, 0, -1), Cls({"-", "/"}, 0, 1), Cls(Space, 0, -1),
      Cls({"0"}, 0, -1), [t |-> "lit", cs |-> Tail(Chars(k))]>>

CidadeChars == UpperSet \cup Accented \cup Digits \cup {" ", ".", "-"}
PatCidadeUF ==
    <<Open(1), LazyCls(CidadeChars, 1, -1), Close(1), Cls(Space, 0, -1), Lit("-"),
      Cls(Space, 0, -1), Open(2), Cls(UpperSet, 2, 2), Close(2)>>

\* lines 140-144: the labelled number, else a standalone run of digits
Manifesto(norm) ==
    LET m == Search(PatNumero, norm)
        manifesto == IF m.ok THEN Group(norm, m, 1) ELSE <<>>
    IN  IF manifesto # <<>> THEN manifesto
        ELSE LET m2 == Search(PatDigitRun, norm)
             IN  IF m2.ok THEN Group(norm, m2, 1) ELSE <<>>

MapLookup(code) ==
    LET hit == {k \in 1..Len(ROTA_CO_MAP) : Chars(ROTA_CO_MAP[k][1]) = code}
    IN  IF hit = {} THEN <<>> ELSE Chars(ROTA_CO_MAP[CHOOSE k \in hit : TRUE][2])

\* lines 149-153: the first Sxx token, looked up in the map
RotaPrimeira(norm) ==
    LET rota_match == Search(PatRota, norm)
    IN  IF ~rota_match.ok THEN <<>>
        ELSE MapLookup(<<"S">> \o IntToChars(DigitsToInt(Group(norm, rota_match, 1))))

\* lines 156-161: each key of the map searched anywhere in the text, in map order
RECURSIVE RotaChaveFrom(_, _)
RotaChaveFrom(norm, k) ==
    IF k > Len(ROTA_CO_MAP) THEN <<>>
    ELSE IF Search(PatRotaKey(ROTA_CO_MAP[k][1]), norm).ok THEN Chars(ROTA_CO_MAP[k][2])
    ELSE RotaChaveFrom(norm, k + 1)
RECURSIVE RotaChaveBackFrom(_, _)
RotaChaveBackFrom(norm, k) ==
    IF k < 1 THEN <<>>
    ELSE IF Search(PatRotaKey(ROTA_CO_MAP[k][1]), norm).ok THEN Chars(ROTA_CO_MAP[k][2])
    ELSE RotaChaveBackFrom(norm, k - 1)
RotaChaveLast(norm) == RotaChaveBackFrom(norm, Len(ROTA_CO_MAP))
RotaChave(norm) == RotaChaveFrom(norm, 1)

\* "{cidade.strip().upper()} - {uf.upper()}" of a match of PatCidadeUF
FormatCidadeUF(text, m) ==
    ToUpper(Strip(Group(text, m, 1))) \o Chars(" - ") \o ToUpper(Group(text, m, 2))

RECURSIVE FirstValidForward(_, _, _)
FirstValidForward(text, matches, k) ==
    IF k > Len(matches) THEN <<>>
    ELSE IF UfValida(ToUpper(Group(text, matches[k], 2))) THEN FormatCidadeUF(text, matches[k])
    ELSE FirstValidForward(text, matches, k + 1)
CidadeUFFirst(text) == FirstValidForward(text, FindIter(PatCidadeUF, text), 1)

\* for m in reversed(matches): the first one whose UF is valid
RECURSIVE FirstValidReversed(_, _, _)
FirstValidReversed(text, matches, k) ==
    IF k < 1 THEN <<>>
    ELSE IF UfValida(ToUpper(Group(text, matches[k], 2))) THEN FormatCidadeUF(text, matches[k])
    ELSE FirstValidReversed(text, matches, k - 1)

\* lines 165-170 (and again 387-392 on the OCR text)
CidadeUF(text) ==
    LET matches == FindIter(PatCidadeUF, text)
    IN  FirstValidReversed(text, matches, Len(matches))

\* returns [manifesto, destino]
extract_manifesto_destino_from_text(text) ==
    LET norm == ToUpper(normalize(text))
        d1 == RotaPrimeira(norm)
        d2 == IF d1 # <<>> THEN d1 ELSE RotaChave(norm)
        d3 == IF d2 # <<>> THEN d2 ELSE CidadeUF(norm)
    IN  [manifesto |-> Manifesto(norm), destino |-> d3]

----------------------------------------------------------------------------
(* find_monetary_candidates                                                *)

PatMonetary ==
    <<Alt(<< <<Cls(Digits, 1, 3),
               Rep(<<Cls({"."} \cup Space, 1, 1), Cls(Digits, 3, 3)>>, 0, -1),
               Rep(<<Cls({",", "."} \cup Space, 1, 1), Cls(Digits, 1, 2)>>, 0, 1)>>,
             <<Cls(Digits, 1, -1), Cls({".", ","}, 1, 1), Cls(Digits, 1, -1)>> >>)>>

\* the stripped matches, each kept once, in order of first occurrence
RECURSIVE DedupeStripped(_, _, _, _)
DedupeStripped(text, matches, k, seen) ==
    IF k > Len(matches) THEN seen
    ELSE LET mm == Strip(Whole(text, matches[k]))
         IN  IF mm # <<>> /\ mm \notin SeqToSet(seen)
             THEN DedupeStripped(text, matches, k + 1, Append(seen, mm))
             ELSE DedupeStripped(text, matches, k + 1, seen)

find_monetary_candidates(text) ==
    IF text = <<>> THEN <<>>
    ELSE DedupeStripped(text, FindIter(PatMonetary, text), 1, <<>>)

----------------------------------------------------------------------------
(* OCR                                                                     *)

\* ocr_image: the engine's text for a page under a segmentation mode, upper-cased
ocr_image(file, page, psm) ==
    ToUpper(IF psm = 6 THEN file.ocr[page].psm6 ELSE file.ocr[page].psm3)

\* with the second engine run made whatever the first returned
ocr_page_quick_both(file, page) ==
    [txt |-> IF Len(Strip(ocr_image(file, page, 6))) >= 10
             THEN ocr_image(file, page, 6) ELSE ocr_image(file, page, 3),
     psms |-> <<6, 3>>]

\* ocr_page_quick: the text kept and the engine runs made (psm 6, then psm 3
\* when the stripped text is shorter than 10 characters)
ocr_page_quick(file, page) ==
    LET txt == ocr_image(file, page, 6)
    IN  IF Len(Strip(txt)) >= 10 THEN [txt |-> txt, psms |-> <<6>>]
        ELSE [txt |-> ocr_image(file, page, 3), psms |-> <<6, 3>>]

EngineCalls(page, psms) == [k \in 1..Len(psms) |-> <<page, psms[k]>>]

----------------------------------------------------------------------------
(* process_pdf: the volume of one page, the value candidates, the value    *)

PatVolumes ==
    <<WB, Lit("VOLUME"), Cls({"S"}, 0, 1), WB, Cls(Space, 0, -1), Cls({":", "-"}, 0, 1),
      Cls(Space, 0, -1), Open(1), Cls(Digits, 1, 6), Close(1), WB>>
PatTotalLike ==
    <<WB, Open(1), Cls(Digits, 1, 5), Close(1), Cls(Space, 0, -1), Lit("."),
      Cls(Space, 0, -1), Cls(Digits, 1, 3), WB>>
PatFirstNum == <<BOS, Cls(Space, 0, -1), Open(1), Cls(Digits, 1, 4), Close(1), WB>>

\* the three searches made without the continue statements: each match adds
PageVolumeNoContinue(txt) ==
    LET m_vol == SearchI(PatVolumes, txt)
        m_total_like == Search(PatTotalLike, txt)
        m_first_num == Search(PatFirstNum, txt)
        num == DigitsToInt(Group(txt, m_first_num, 1))
    IN  (IF m_vol.ok THEN DigitsToInt(Group(txt, m_vol, 1)) ELSE 0)
        + (IF m_total_like.ok THEN DigitsToInt(Group(txt, m_total_like, 1)) ELSE 0)
        + (IF m_first_num.ok /\ num > 0 /\ num < 5000 THEN num ELSE 0)

\* lines 274-302: what one page adds to total_volumes
PageVolume(txt) ==
    LET m_vol == SearchI(PatVolumes, txt)
        m_total_like == Search(PatTotalLike, txt)
        m_first_num == Search(PatFirstNum, txt)
        num == DigitsToInt(Group(txt, m_first_num, 1))
    IN  IF m_vol.ok THEN DigitsToInt(Group(txt, m_vol, 1))
        ELSE IF m_total_like.ok THEN DigitsToInt(Group(txt, m_total_like, 1))
        ELSE IF m_first_num.ok /\ num > 0 /\ num < 5000 THEN num
        ELSE 0

PatValorTotal == <<Lit("VALOR"), Cls(Space, 1, -1), Lit("TOTAL")>>
PatValorTotalDo == <<Lit("VALOR"), Cls(Space, 1, -1), Lit("TOTAL"), Cls(Space, 1, -1), Lit("DO")>>
PatValorColon == <<Lit("VALOR"), Cls(Space, 0, -1), Lit(":")>>
PatValor == <<Lit("VALOR")>>

RECURSIVE CandidatesOfLines(_, _)
CandidatesOfLines(lines, pats) ==
    IF lines = <<>> THEN <<>>
    ELSE (IF \E k \in 1..Len(pats) : SearchI(pats[k], Head(lines)).ok
          THEN find_monetary_candidates(Head(lines)) ELSE <<>>)
         \o CandidatesOfLines(Tail(lines), pats)

\* lines 322-331: the candidates of the native text of the last page
NativeCandidates(text) ==
    IF text = <<>> THEN <<>>
    ELSE LET labelled == CandidatesOfLines(SplitLines(text),
                                           <<PatValorTotal, PatValorTotalDo, PatValorColon>>)
         IN  IF labelled # <<>> THEN labelled ELSE find_monetary_candidates(text)

\* lines 339-343: the candidates of the OCR text of the last page
OcrCandidates(ocr_last) ==
    LET labelled == CandidatesOfLines(SplitLines(ocr_last), <<PatValorTotal, PatValorColon>>)
    IN  IF labelled # <<>> THEN labelled ELSE find_monetary_candidates(ocr_last)

RECURSIVE ParseAll(_)
ParseAll(cands) ==
    IF cands = <<>> THEN <<>>
    ELSE LET v == try_parse_amount(Head(cands))
         IN  (IF v.ok THEN << <<Head(cands), v>> >> ELSE <<>>) \o ParseAll(Tail(cands))

RECURSIVE Pow10(_)
Pow10(k) == IF k = 0 THEN 1 ELSE 10 * Pow10(k - 1)

\* a < b for two floats
Less(a, b) ==
    LET dd == IF a.d > b.d THEN a.d ELSE b.d
    IN  a.n * Pow10(dd - a.d) < b.n * Pow10(dd - b.d)

\* max(pairs, key=lambda x: x[1])[1]: the first of the largest values
RECURSIVE MaxValue(_)
MaxValue(pairs) ==
    IF Len(pairs) = 1 THEN pairs[1][2]
    ELSE LET m == MaxValue(SubSeq(pairs, 1, Len(pairs) - 1))
         IN  IF Less(m, pairs[Len(pairs)][2]) THEN pairs[Len(pairs)][2] ELSE m

\* lines 356-362: the parsed candidates found on a line of last_text that holds VALOR
ValorPref(parsed, text) ==
    LET lines == SplitLines(text)
    IN  SelectSeq(parsed, LAMBDA pr : \E k \in 1..Len(lines) :
                                         Contains(lines[k], pr[1]) /\ SearchI(PatValor, lines[k]).ok)

\* the value rounded to hundredths (the inputs hold no exact tie)
Cents(v) ==
    IF v.d <= 2 THEN v.n * Pow10(2 - v.d)
    ELSE LET unit == Pow10(v.d - 2)
         IN  (v.n \div unit) + (IF 2 * (v.n % unit) > unit THEN 1 ELSE 0)

RECURSIVE Group3(_)
Group3(q) ==
    IF Len(q) <= 3 THEN q
    ELSE Group3(SubSeq(q, 1, Len(q) - 3)) \o <<".">> \o SubSeq(q, Len(q) - 2, Len(q))

\* f"{val:,.2f}" with the separators swapped: 1234.5 -> 1.234,50
FormatBR(v) ==
    LET c == Cents(v)
    IN  Group3(IntToChars(c \div 100)) \o <<",">> \o Pad2(c % 100)

ChooseFirst(cands, text) ==
    LET parsed == ParseAll(cands)
    IN  IF parsed = <<>> THEN <<>> ELSE FormatBR(parsed[1][2])

\* lines 347-377: the formatted value chosen among the candidates
ChooseValor(cands, text) ==
    LET parsed == ParseAll(cands)
        valor_pref == IF text # <<>> THEN ValorPref(parsed, text) ELSE <<>>
    IN  IF parsed = <<>> THEN <<>>
        ELSE IF valor_pref # <<>> THEN FormatBR(MaxValue(valor_pref))
        ELSE FormatBR(MaxValue(parsed))

----------------------------------------------------------------------------
(* Inputs of the pure functions                                            *)

MaxAmountLen == 5
MaxLines == 3

RECURSIVE Repeat(_, _)
Repeat(c, n) == IF n = 0 THEN <<>> ELSE <<c>> \o Repeat(c, n - 1)

SeqsUpTo(set, n) == UNION {[1..k -> set] : k \in 0..n}

\* try_parse_amount: every short string over the symbols that matter, and the
\* documented examples
AmountAlphabet == {"1", "5", ".", ",", " "}
AmountExamples ==
    {Chars("1.234,56"), Chars("1,234.56"), Chars("1234,5"), Chars("R$ 26.475,41"),
     Chars("1.234.567"), Chars("1.234.567,89")}
AmountInputs == SeqsUpTo(AmountAlphabet, MaxAmountLen) \cup AmountExamples

\* extract_manifesto_destino_from_text: texts of up to MaxLines lines
IdLines ==
    {Chars("NUMERO: 12345678"),
     Chars("NUMERO: ") \o Repeat("7", 16),
     Chars("N") \o <<"ORD_MASC">> \o Chars(" 123456789"),
     Chars("123456"),
     Chars("313855123456"),
     Repeat("9", 16)}
DestLines ==
    {Chars("S-027"), Chars("S 10"), Chars("S270"), Chars("XS/28"),
     Chars("DESTINATARIO"),
     Chars("SAO PAULO - SP"), Chars("RIO DE JANEIRO - RJ"), Chars("LISBOA - PT")}
TextsOf(lines) == {JoinLines(ls) : ls \in SeqsUpTo(lines, MaxLines)}
TextInputs == TextsOf(IdLines) \cup TextsOf(DestLines)

----------------------------------------------------------------------------
(* State outside the routine a specification runs                          *)

NoRecord == [manifesto |-> <<>>, data |-> <<>>, destino |-> <<>>,
             valor |-> <<>>, volumes |-> <<>>]
NoSource == [manifesto |-> "none", data |-> "none", destino |-> "none",
             valor |-> "none", volumes |-> "none"]

BatchIdle ==
    /\ files = <<>> /\ idx = 0 /\ linhas = <<>>
    /\ out = NoRecord /\ pages_txt = <<>> /\ images = <<>>
    /\ page_i = 0 /\ total_volumes = 0 /\ ocr_texts_per_page = <<>>
    /\ last_text = <<>> /\ candidates = <<>>
    /\ engine_calls = <<>> /\ quick_calls = <<>> /\ field_src = NoSource
batchVars == <<files, idx, linhas, out, pages_txt, images, page_i, total_volumes,
               ocr_texts_per_page, last_text, candidates, engine_calls,
               quick_calls, field_src>>

----------------------------------------------------------------------------
(* try_parse_amount applied to every input                                 *)

InitAmount ==
    /\ pc = "call" /\ s \in AmountInputs /\ amount = None
    /\ full_text = <<>> /\ extracted = [manifesto |-> <<>>, destino |-> <<>>]
    /\ BatchIdle

CallParseAmount ==
    /\ pc = "call"
    /\ amount' = try_parse_amount(s)
    /\ pc' = "ret"
    /\ UNCHANGED <<s, full_text, extracted, batchVars>>

SpecAmount == InitAmount /\ [][CallParseAmount]_vars

----------------------------------------------------------------------------
(* extract_manifesto_destino_from_text applied to every input              *)

InitExtract ==
    /\ pc = "call" /\ full_text \in TextInputs
    /\ extracted = [manifesto |-> <<>>, destino |-> <<>>]
    /\ s = <<>> /\ amount = None
    /\ BatchIdle

CallExtract ==
    /\ pc = "call"
    /\ extracted' = extract_manifesto_destino_from_text(full_text)
    /\ pc' = "ret"
    /\ UNCHANGED <<s, amount, full_text, batchVars>>

SpecExtract == InitExtract /\ [][CallExtract]_vars

----------------------------------------------------------------------------------------------------------------------------------------
(* Properties of extract_manifesto_destino_from_text                       *)

NormText == ToUpper(normalize(full_text))
NoMappedCode(norm) == RotaPrimeira(norm) = <<>> /\ RotaChave(norm) = <<>>

\* the CITY - UF candidates with a valid region code, in document order:
\* where each starts and the destination it stands for
ValidCandidates(norm) ==
    LET ms == FindIter(PatCidadeUF, norm)
        valid == {k \in 1..Len(ms) : UfValida(Group(norm, ms[k], 2))}
    IN  {[k |-> k, start |-> ms[k].start, text |-> FormatCidadeUF(norm, ms[k])] : k \in valid}
First(cands) == CHOOSE c \in cands : \A o \in cands : c.k <= o.k
Last(cands) == CHOOSE c \in cands : \A o \in cands : o.k <= c.k
LastValidCandidate(cands) == IF cands = {} THEN <<>> ELSE Last(cands).text

\* the context window of section 4.4: the candidate's line and the two lines
\* before it hold a recipient/address keyword
ContextKeywords ==
    {Chars("DESTINATARIO"), Chars("REMESSA"), Chars("CNPJ"), Chars("RUA"),
     Chars("AVENIDA"), Chars("GALPAO"), Chars("RODOVIA"), Chars("ENDERECO")}
LineOf(norm, pos) == 1 + Cardinality({i \in 1..(pos - 1) : norm[i] = "\n"})
ContextQualified(norm, lines, c) ==
    LET ln == LineOf(norm, c.start)
    IN  \E j \in 1..Len(lines) :
            /\ j <= ln /\ j >= ln - 2
            /\ \E w \in ContextKeywords : Contains(lines[j], w)
QualifiedCandidates(norm, cands) ==
    LET lines == SplitLines(norm)
    IN  {c \in cands : ContextQualified(norm, lines, c)}

ExampleContextText == Chars("DESTINATARIO\nSAO PAULO - SP\nRIO DE JANEIRO - RJ")

\* C3 as claimed: with no mapped route code, the first context-qualified
\* candidate is returned, and the last valid candidate only when none is
\* context-qualified
C3_ContextPrecedence ==
    pc = "ret" =>
        LET norm == NormText
            cands == ValidCandidates(norm)
            qual == QualifiedCandidates(norm, cands)
        IN  (NoMappedCode(norm) /\ cands # {}) =>
                extracted.destino = IF qual # {} THEN First(qual).text ELSE Last(cands).text

\* C3 amended: with no mapped route code, the destination is the last valid
\* CITY - UF candidate in document order whatever its context (empty when
\* there is none), so the context-qualified SAO PAULO - SP followed by
\* RIO DE JANEIRO - RJ yields the Rio de Janeiro candidate
C3_LastValidCandidate ==
    pc = "ret" =>
        LET norm == NormText
        IN  /\ NoMappedCode(norm) =>
                  extracted.destino = LastValidCandidate(ValidCandidates(norm))
            /\ full_text = ExampleContextText =>
                  extracted.destino = Chars("RIO DE JANEIRO - RJ")

C3_Witness ==
    /\ pc = "ret" /\ full_text = ExampleContextText
    /\ LET cands == ValidCandidates(NormText)
       IN  Cardinality(cands) = 2 /\ QualifiedCandidates(NormText, cands) # {}
    /\ extracted.destino = Chars("RIO DE JANEIRO - RJ")

\* the normalized code of the first Sxx token of the text, <<>> without one
FirstTokenCode(norm) ==
    LET m == Search(PatRota, norm)
    IN  IF m.ok THEN <<"S">> \o IntToChars(DigitsToInt(Group(norm, m, 1))) ELSE <<>>
KeysFound(norm) ==
    {k \in 1..Len(ROTA_CO_MAP) : Search(PatRotaKey(ROTA_CO_MAP[k][1]), norm).ok}

\* C4 as claimed: only the first token counts; mapped, the destination is its
\* name; unmapped, the destination is what the CITY - UF resolver returns
C4_FirstTokenOnly ==
    pc = "ret" =>
        LET norm == NormText
            code == FirstTokenCode(norm)
        IN  code # <<>> =>
                extracted.destino =
                    IF MapLookup(code) # <<>> THEN MapLookup(code)
                    ELSE LastValidCandidate(ValidCandidates(norm))

\* C4 amended: a mapped first token gives its name; otherwise (unmapped or no
\* token) every key of the table is searched anywhere in the text, without
\* word boundaries, and the first key of the table that occurs gives the
\* destination; only when no key occurs is the CITY - UF resolver used
C4_RouteThenKeyScan ==
    pc = "ret" =>
        LET norm == NormText
            code == FirstTokenCode(norm)
            keys == KeysFound(norm)
        IN  extracted.destino =
                IF code # <<>> /\ MapLookup(code) # <<>> THEN MapLookup(code)
                ELSE IF keys # {}
                THEN Chars(ROTA_CO_MAP[CHOOSE k \in keys : \A j \in keys : k <= j][2])
                ELSE LastValidCandidate(ValidCandidates(norm))

C4_Witness ==
    /\ pc = "ret"
    /\ LET norm == NormText
           code == FirstTokenCode(norm)
       IN  /\ code # <<>> /\ MapLookup(code) = <<>>
           /\ Cardinality(KeysFound(norm)) = 2
           /\ extracted.destino # <<>>
           /\ extracted.destino # LastValidCandidate(ValidCandidates(norm))

\* C5: the identifier is empty or a run of 8 to 15 digits
C5_IdentifierLength ==
    pc = "ret" =>
        \/ extracted.manifesto = <<>>
        \/ /\ SeqToSet(extracted.manifesto) \subseteq Digits
           /\ Len(extracted.manifesto) >= 8
           /\ Len(extracted.manifesto) <= 15

----------------------------------------------------------------------------
(* Properties of try_parse_amount                                          *)

\* the characters of q that are digits, dots or commas
NumericChars(q) == Remove(q, SeqToSet(q) \ (Digits \cup {".", ","}))
CountOf(q, c) == Cardinality({i \in 1..Len(q) : q[i] = c})
\* q read with the symbol sep as its decimal separator: every occurrence of
\* the other symbol deleted, sep written as a dot
ReadWithDecimal(q, sep) ==
    ReplaceChar(Remove(NumericChars(q), {".", ","} \ {sep}), sep, ".")
RightmostSeparator(q) ==
    LET at == {i \in 1..Len(q) : q[i] \in {".", ","}}
    IN  q[CHOOSE i \in at : \A j \in at : j <= i]

\* C8: with both symbols the rightmost one is the decimal separator and the
\* other is deleted; a lone comma is the decimal separator; the empty string
\* and a string left with more than one decimal point give None
C8_RightmostIsDecimal ==
    pc = "ret" =>
        /\ ("." \in SeqToSet(s) /\ "," \in SeqToSet(s)) =>
              LET read == ReadWithDecimal(s, RightmostSeparator(s))
              IN  /\ amount = PyFloat(read)
                  /\ CountOf(read, ".") > 1 => amount = None
        /\ ("," \in SeqToSet(s) /\ "." \notin SeqToSet(s)) =>
              /\ amount = PyFloat(ReadWithDecimal(s, ","))
              /\ CountOf(s, ",") > 1 => amount = None
        /\ s = <<>> => amount = None
        /\ s = Chars("1.234,56") => amount = [ok |-> TRUE, n |-> 123456, d |-> 2]
        /\ s = Chars("1,234.56") => amount = [ok |-> TRUE, n |-> 123456, d |-> 2]
        /\ s = Chars("1234,5") => amount = [ok |-> TRUE, n |-> 12345, d |-> 1]

C8_Witness ==
    /\ pc = "ret" /\ s = Chars("1,234.56")
    /\ amount = [ok |-> TRUE, n |-> 123456, d |-> 2]

----------------------------------------------------------------------------
(* The uploaded files                                                      *)
(* A file is what its bytes make the collaborators return: whether         *)
(* pdfplumber opens it and the text (or the failure) of each page, what    *)
(* convert_from_bytes does at 300 and at 500 dpi, and the OCR engine's     *)
(* text for each page under psm 6 and psm 3.                               *)

MaxPages == 3
MaxFiles == 3

PageText(str) == [ok |-> TRUE, text |-> Chars(str)]
PageRaises == [ok |-> FALSE, text |-> <<>>]
Ocr(a, b) == [psm6 |-> Chars(a), psm3 |-> Chars(b)]

\* native text layers
NativeOpenFails == [open |-> FALSE, pages |-> <<>>]
NativeNoText == [open |-> TRUE, pages |-> <<PageText("")>>]
NativeFull ==
    [open |-> TRUE,
     pages |-> <<PageText("NUMERO: 31385512345\n11 out 2025 22:03:28\nS27"),
                 PageText("BELO HORIZONTE - MG\nValor Total 99,10 1.234,56")>>]
NativeUnparseable ==
    [open |-> TRUE, pages |-> <<PageText("NUMERO: 12345678\nVALOR TOTAL 1.234.567")>>]
NativeUnlabelled ==
    [open |-> TRUE, pages |-> <<PageText("MACAE - RJ\nFRETE 12,50\nVALOR 3,00")>>]
NativeFirstPageRaises ==
    [open |-> TRUE, pages |-> <<PageRaises, PageText("VALOR: 8,25")>>]
Natives == {NativeOpenFails, NativeNoText, NativeFull, NativeUnparseable,
            NativeUnlabelled, NativeFirstPageRaises}

\* OCR of one page
OcrVolumes == Ocr("VOLUMES: 12\n31.13 74.00", "")
OcrNoMatch == Ocr("NITEROI - RJ", "")
OcrDotted == Ocr("5.00", "5.00")
OcrLeading == Ocr("44 caixas", "44 CAIXAS\nFRETE 9,10\nVALOR: 7,50")
OcrTooMany == Ocr("5000 CAIXAS", "")
OcrHeader == Ocr("NUMERO: 31385512345\n11 OUT 2025 22:03:28", "")
OcrPages == {OcrVolumes, OcrNoMatch, OcrDotted, OcrLeading, OcrTooMany, OcrHeader}
PageSeqs == UNION {[1..k -> OcrPages] : k \in 1..MaxPages}

File(native, raster, ocr) == [native |-> native, raster |-> raster, ocr |-> ocr]

\* every text layer with every page sequence, rasterized at 300 dpi; and the
\* rasterizer failing at 300 dpi, at both resolutions, or returning no page
Docs ==
    {File(n, "ok300", o) : n \in Natives, o \in PageSeqs}
    \cup {File(n, r, <<OcrNoMatch, OcrLeading>>) :
            n \in {NativeFull, NativeNoText}, r \in {"ok500", "fail", "empty"}}

BatchDocs ==
    {File(NativeFull, "ok300", <<OcrVolumes>>),
     File(NativeOpenFails, "ok300", <<OcrNoMatch>>),
     File(NativeFull, "fail", <<OcrVolumes>>)}
Batches ==
    {<<d>> : d \in Docs} \cup UNION {[1..k -> BatchDocs] : k \in 2..MaxFiles}

----------------------------------------------------------------------------
(* read_pdf_text, convert_pdf_fast                                         *)

\* read_pdf_text: the page texts, [] when pdfplumber fails on the file or on a page
read_pdf_text(file) ==
    IF ~file.native.open \/ \E k \in 1..Len(file.native.pages) : ~file.native.pages[k].ok
    THEN <<>>
    ELSE [k \in 1..Len(file.native.pages) |-> file.native.pages[k].text]

\* lines 311-319: the native text of the last page, "" on any failure
LastPageText(file) ==
    IF ~file.native.open \/ file.native.pages = <<>> THEN <<>>
    ELSE IF ~file.native.pages[Len(file.native.pages)].ok THEN <<>>
    ELSE file.native.pages[Len(file.native.pages)].text

\* convert_pdf_fast: the page images (their page numbers); raises when
\* convert_from_bytes fails at 500 dpi too
ConvertRaises(file) == file.raster = "fail"
convert_pdf_fast(file) ==
    IF file.raster = "empty" THEN <<>> ELSE [k \in 1..Len(file.ocr) |-> k]

----------------------------------------------------------------------------
(* The functions of a text, tabulated over the texts of the files: each is *)
(* computed once per text, not once per state.                             *)

NativeLayers == {d.native : d \in Docs \cup BatchDocs}
OcrSamples == UNION {SeqToSet(d.ocr) : d \in Docs \cup BatchDocs}
NativePageTexts == UNION {{n.pages[k].text : k \in 1..Len(n.pages)} : n \in NativeLayers}
JoinedTexts ==
    {JoinLines([k \in 1..Len(n.pages) |-> n.pages[k].text]) : n \in NativeLayers}
OcrTexts == {ToUpper(o.psm6) : o \in OcrSamples} \cup {ToUpper(o.psm3) : o \in OcrSamples}

DataHoraOf == [txt \in NativePageTexts |-> extract_data_hora_from_head(txt)]
ManifestoDestinoOf == [txt \in JoinedTexts |-> extract_manifesto_destino_from_text(txt)]
NativeCandidatesOf == [txt \in NativePageTexts \cup {<<>>} |-> NativeCandidates(txt)]
PageVolumeOf == [txt \in OcrTexts |-> PageVolume(txt)]
OcrCandidatesOf == [txt \in OcrTexts |-> OcrCandidates(txt)]
CidadeUFOf == [txt \in OcrTexts |-> CidadeUF(txt)]
ChooseValorOf ==
    [ct \in {<<NativeCandidatesOf[txt], txt>> : txt \in NativePageTexts \cup {<<>>}}
            \cup {<<OcrCandidatesOf[o], txt>> : o \in OcrTexts, txt \in NativePageTexts \cup {<<>>}}
        |-> ChooseValor(ct[1], ct[2])]

----------------------------------------------------------------------------
(* The batch loop and process_pdf                                          *)

harnessVars == <<s, amount, full_text, extracted>>
File_ == files[idx]

InitBatch ==
    /\ pc = "loop" /\ files \in Batches /\ idx = 0 /\ linhas = <<>>
    /\ out = NoRecord /\ pages_txt = <<>> /\ images = <<>>
    /\ page_i = 0 /\ total_volumes = 0 /\ ocr_texts_per_page = <<>>
    /\ last_text = <<>> /\ candidates = <<>>
    /\ engine_calls = <<>> /\ quick_calls = <<>> /\ field_src = NoSource
    /\ s = <<>> /\ amount = None
    /\ full_text = <<>> /\ extracted = [manifesto |-> <<>>, destino |-> <<>>]

\* for idx, f in enumerate(files): process_pdf(f_bytes) is entered
StartFile ==
    /\ pc = "loop" /\ idx < Len(files)
    /\ idx' = idx + 1
    /\ out' = NoRecord /\ pages_txt' = <<>> /\ images' = <<>>
    /\ page_i' = 0 /\ total_volumes' = 0 /\ ocr_texts_per_page' = <<>>
    /\ last_text' = <<>> /\ candidates' = <<>>
    /\ engine_calls' = <<>> /\ quick_calls' = <<>> /\ field_src' = NoSource
    /\ pc' = "native"
    /\ UNCHANGED <<files, linhas, harnessVars>>

\* the loop is over
FinishBatch ==
    /\ pc = "loop" /\ idx = Len(files)
    /\ pc' = "finished"
    /\ UNCHANGED <<files, idx, linhas, out, pages_txt, images, page_i, total_volumes,
                   ocr_texts_per_page, last_text, candidates, engine_calls,
                   quick_calls, field_src, harnessVars>>

Src(old, value, source) == IF value # <<>> THEN source ELSE old

\* step 1: the native text and the fields it gives
ReadNative ==
    /\ pc = "native"
    /\ pages_txt' = read_pdf_text(File_)
    /\ IF pages_txt' # <<>>
       THEN LET data == DataHoraOf[pages_txt'[1]][1]
                md == ManifestoDestinoOf[JoinLines(pages_txt')]
            IN  /\ out' = [out EXCEPT !.data = data, !.manifesto = md.manifesto,
                                      !.destino = md.destino]
                /\ field_src' = [field_src EXCEPT
                                   !.data = Src(@, data, "native"),
                                   !.manifesto = Src(@, md.manifesto, "native"),
                                   !.destino = Src(@, md.destino, "native")]
       ELSE UNCHANGED <<out, field_src>>
    /\ pc' = "convert"
    /\ UNCHANGED <<files, idx, linhas, images, page_i, total_volumes, ocr_texts_per_page,
                   last_text, candidates, engine_calls, quick_calls, harnessVars>>

\* step 2: the page images
Convert ==
    /\ pc = "convert" /\ ~ConvertRaises(File_)
    /\ images' = convert_pdf_fast(File_)
    /\ pc' = "volumes"
    /\ UNCHANGED <<files, idx, linhas, out, pages_txt, page_i, total_volumes,
                   ocr_texts_per_page, last_text, candidates, engine_calls,
                   quick_calls, field_src, harnessVars>>

\* step 2 when convert_from_bytes raises at 500 dpi: nothing catches the
\* exception in convert_pdf_fast, in process_pdf or around the call in the
\* loop, and the script run ends
ConvertFails ==
    /\ pc = "convert" /\ ConvertRaises(File_)
    /\ pc' = "aborted"
    /\ UNCHANGED <<files, idx, linhas, out, pages_txt, images, page_i, total_volumes,
                   ocr_texts_per_page, last_text, candidates, engine_calls,
                   quick_calls, field_src, harnessVars>>

\* step 3, one iteration: OCR of the next page and its volume
VolumePage ==
    /\ pc = "volumes" /\ page_i < Len(images)
    /\ LET q == ocr_page_quick(File_, images[page_i + 1])
       IN  /\ engine_calls' = engine_calls \o EngineCalls(images[page_i + 1], q.psms)
           /\ quick_calls' = Append(quick_calls, <<images[page_i + 1], "volumes">>)
           /\ ocr_texts_per_page' = Append(ocr_texts_per_page, q.txt)
           /\ total_volumes' = total_volumes + PageVolumeOf[q.txt]
    /\ page_i' = page_i + 1
    /\ UNCHANGED <<pc, files, idx, linhas, out, pages_txt, images, last_text, candidates,
                   field_src, harnessVars>>

\* step 3, after the loop
VolumesDone ==
    /\ pc = "volumes" /\ page_i = Len(images)
    /\ out' = [out EXCEPT !.volumes = IF total_volumes > 0 THEN IntToChars(total_volumes) ELSE @]
    /\ field_src' = [field_src EXCEPT !.volumes = IF total_volumes > 0 THEN "ocr" ELSE @]
    /\ pc' = "valor_native"
    /\ UNCHANGED <<files, idx, linhas, pages_txt, images, page_i, total_volumes,
                   ocr_texts_per_page, last_text, candidates, engine_calls,
                   quick_calls, harnessVars>>

\* step 4.1: the candidates of the native text of the last page
ValorNative ==
    /\ pc = "valor_native"
    /\ last_text' = LastPageText(File_)
    /\ candidates' = NativeCandidatesOf[last_text']
    /\ pc' = "valor_ocr"
    /\ UNCHANGED <<files, idx, linhas, out, pages_txt, images, page_i, total_volumes,
                   ocr_texts_per_page, engine_calls, quick_calls, field_src, harnessVars>>

\* step 4.2: without candidates, those of the OCR of the last page;
\* images[-1] of no image raises, which the except clause turns into no candidate
ValorOcr ==
    /\ pc = "valor_ocr"
    /\ IF candidates = <<>> /\ images # <<>>
       THEN LET q == ocr_page_quick(File_, images[Len(images)])
            IN  /\ engine_calls' = engine_calls \o EngineCalls(images[Len(images)], q.psms)
                /\ quick_calls' = Append(quick_calls, <<images[Len(images)], "valor">>)
                /\ candidates' = OcrCandidatesOf[q.txt]
       ELSE UNCHANGED <<engine_calls, quick_calls, candidates>>
    /\ pc' = "valor_choose"
    /\ UNCHANGED <<files, idx, linhas, out, pages_txt, images, page_i, total_volumes,
                   ocr_texts_per_page, last_text, field_src, harnessVars>>

FromOcr(step) == \E k \in 1..Len(quick_calls) : quick_calls[k][2] = step

\* steps 4.3 and 4.4: the value chosen and formatted
ValorChoose ==
    /\ pc = "valor_choose"
    /\ LET valor == ChooseValorOf[<<candidates, last_text>>]
       IN  /\ out' = [out EXCEPT !.valor = IF valor # <<>> THEN valor ELSE @]
           /\ field_src' = [field_src EXCEPT
                              !.valor = Src(@, valor, IF FromOcr("valor") THEN "ocr" ELSE "native")]
    /\ pc' = "destino_ocr"
    /\ UNCHANGED <<files, idx, linhas, pages_txt, images, page_i, total_volumes,
                   ocr_texts_per_page, last_text, candidates, engine_calls,
                   quick_calls, harnessVars>>

\* step 5 made whatever out["destino"] holds
DestinoOcrAlways ==
    /\ pc = "destino_ocr"
    /\ IF images # <<>>
       THEN LET q == ocr_page_quick(File_, images[Len(images)])
                destino == IF q.txt # <<>> THEN CidadeUFOf[q.txt] ELSE <<>>
            IN  /\ engine_calls' = engine_calls \o EngineCalls(images[Len(images)], q.psms)
                /\ quick_calls' = Append(quick_calls, <<images[Len(images)], "destino">>)
                /\ out' = [out EXCEPT !.destino = IF destino # <<>> THEN destino ELSE @]
                /\ field_src' = [field_src EXCEPT !.destino = Src(@, destino, "ocr")]
       ELSE UNCHANGED <<engine_calls, quick_calls, out, field_src>>
    /\ pc' = "return"
    /\ UNCHANGED <<files, idx, linhas, pages_txt, images, page_i, total_volumes,
                   ocr_texts_per_page, last_text, candidates, harnessVars>>

\* step 5 never made
DestinoOcrNever ==
    /\ pc = "destino_ocr"
    /\ pc' = "return"
    /\ UNCHANGED <<files, idx, linhas, out, pages_txt, images, page_i, total_volumes,
                   ocr_texts_per_page, last_text, candidates, engine_calls,
                   quick_calls, field_src, harnessVars>>

\* step 5: with no destination yet, the last CITY - UF of the OCR of the last page
DestinoOcr ==
    /\ pc = "destino_ocr"
    /\ IF out.destino = <<>> /\ images # <<>>
       THEN LET q == ocr_page_quick(File_, images[Len(images)])
                destino == IF q.txt # <<>> THEN CidadeUFOf[q.txt] ELSE <<>>
            IN  /\ engine_calls' = engine_calls \o EngineCalls(images[Len(images)], q.psms)
                /\ quick_calls' = Append(quick_calls, <<images[Len(images)], "destino">>)
                /\ out' = [out EXCEPT !.destino = IF destino # <<>> THEN destino ELSE @]
                /\ field_src' = [field_src EXCEPT !.destino = Src(@, destino, "ocr")]
       ELSE UNCHANGED <<engine_calls, quick_calls, out, field_src>>
    /\ pc' = "return"
    /\ UNCHANGED <<files, idx, linhas, pages_txt, images, page_i, total_volumes,
                   ocr_texts_per_page, last_text, candidates, harnessVars>>

\* return out, and the row the loop appends to st.session_state["linhas"]
Return ==
    /\ pc = "return"
    /\ linhas' = Append(linhas, [Data |-> out.data, Manifesto |-> out.manifesto,
                                 Destino |-> out.destino, ValorTotal |-> out.valor,
                                 Quantidade |-> out.volumes])
    /\ pc' = "loop"
    /\ UNCHANGED <<files, idx, out, pages_txt, images, page_i, total_volumes,
                   ocr_texts_per_page, last_text, candidates, engine_calls,
                   quick_calls, field_src, harnessVars>>

Next ==
    \/ StartFile \/ FinishBatch \/ ReadNative \/ Convert \/ ConvertFails
    \/ VolumePage \/ VolumesDone \/ ValorNative \/ ValorOcr \/ ValorChoose
    \/ DestinoOcr \/ Return

Spec == InitBatch /\ [][Next]_vars

----------------------------------------------------------------------------
(* Properties of process_pdf and of the batch loop                         *)

RecordFields == {"manifesto", "data", "destino", "valor"}
QuickCallMade(step) ==
    /\ Len(quick_calls') = Len(quick_calls) + 1
    /\ quick_calls'[Len(quick_calls')][2] = step

\* C1: within one run of process_pdf, a record field (manifesto, data,
\* destino, valor) that holds a value taken from the native text keeps that
\* value in every later step; the OCR of the last page is made for the
\* destination only while destino is empty, and for the value only when the
\* native text of the last page gave no candidate.
C1_NativeOutranksOcr ==
    [][/\ pc # "loop" =>
            \A f \in RecordFields :
                field_src[f] = "native" => out'[f] = out[f] /\ field_src'[f] = "native"
       /\ QuickCallMade("destino") => out.destino = <<>> /\ field_src.destino = "none"
       /\ QuickCallMade("valor") =>
            candidates = <<>> /\ NativeCandidates(LastPageText(files[idx])) = <<>>]_vars

\* a run that ends with the destination and the value of the native text
\* although the OCR text of the last page holds a valid CITY - UF
C1_Witness ==
    /\ pc = "return"
    /\ field_src.destino = "native" /\ field_src.valor = "native"
    /\ out.destino # <<>> /\ out.valor # <<>>
    /\ images # <<>>
    /\ CidadeUF(ocr_texts_per_page[Len(ocr_texts_per_page)]) # <<>>

\* C2: when the loop over the files is left, every file of the batch has
\* its row, whatever failed in the processing of the other files.
C2_FailureIsolated ==
    pc \in {"finished", "aborted"} => Len(linhas) = Len(files)

\* what the priority (a), (b), (c) gives for the text of one page
LabelledVolumes(txt) == SearchI(PatVolumes, txt)
DottedNumber(txt) == Search(PatTotalLike, txt)
LeadingInteger(txt) == Search(PatFirstNum, txt)
SanityBound == 5000
PageContribution(txt) ==
    CASE LabelledVolumes(txt).ok ->
            DigitsToInt(Group(txt, LabelledVolumes(txt), 1))
      [] ~LabelledVolumes(txt).ok /\ DottedNumber(txt).ok ->
            DigitsToInt(Group(txt, DottedNumber(txt), 1))
      [] /\ ~LabelledVolumes(txt).ok /\ ~DottedNumber(txt).ok /\ LeadingInteger(txt).ok
         /\ DigitsToInt(Group(txt, LeadingInteger(txt), 1)) \in 1..(SanityBound - 1) ->
            DigitsToInt(Group(txt, LeadingInteger(txt), 1))
      [] OTHER -> 0
PageContributionOf == [txt \in OcrTexts |-> PageContribution(txt)]

RECURSIVE SumContributions(_)
SumContributions(texts) ==
    IF texts = <<>> THEN 0
    ELSE PageContributionOf[Head(texts)] + SumContributions(Tail(texts))

ExamplePages == <<OcrVolumes, OcrNoMatch, OcrDotted>>

NativeLabelledPats == <<PatValorTotal, PatValorTotalDo, PatValorColon>>
OcrLabelledPats == <<PatValorTotal, PatValorColon>>
OcrLastText(file) ==
    IF file.raster = "empty" THEN <<>>
    ELSE LET o == file.ocr[Len(file.ocr)]
         IN  IF Len(Strip(ToUpper(o.psm6))) >= 10 THEN ToUpper(o.psm6) ELSE ToUpper(o.psm3)
Tiers(last, ocr) ==
        <<CandidatesOfLines(SplitLines(last), NativeLabelledPats),
          find_monetary_candidates(last),
          CandidatesOfLines(SplitLines(ocr), OcrLabelledPats),
          find_monetary_candidates(ocr)>>
Parses(c) == try_parse_amount(c).ok
OnValorLine(c, text) ==
    \E k \in 1..Len(SplitLines(text)) :
        Contains(SplitLines(text)[k], c) /\ SearchI(PatValor, SplitLines(text)[k]).ok
Largest(pool) ==
    try_parse_amount(CHOOSE c \in pool :
        \A o \in pool : ~Less(try_parse_amount(c), try_parse_amount(o)))

\* the first candidate, over all the tiers in order, that parses
FirstParsing(last, ocr) ==
    LET tiers == Tiers(last, ocr)
        all == tiers[1] \o tiers[2] \o tiers[3] \o tiers[4]
        good == {k \in 1..Len(all) : Parses(all[k])}
    IN  IF good = {} THEN <<>>
        ELSE FormatBR(try_parse_amount(all[CHOOSE k \in good : \A j \in good : k <= j]))

\* the largest parsing candidate of the first tier that has candidates,
\* those on a native line holding VALOR coming first
LargestOfFirstTier(last, ocr) ==
    LET tiers == Tiers(last, ocr)
        nonempty == {k \in 1..4 : tiers[k] # <<>>}
        tier == IF nonempty = {} THEN <<>>
                ELSE tiers[CHOOSE k \in nonempty : \A j \in nonempty : k <= j]
        good == {c \in SeqToSet(tier) : Parses(c)}
        pref == {c \in good : OnValorLine(c, last)}
    IN  IF good = {} THEN <<>>
        ELSE FormatBR(Largest(IF pref # {} THEN pref ELSE good))

LastTexts == (NativePageTexts \cup {<<>>}) \X (OcrTexts \cup {<<>>})
TiersOf == [lo \in LastTexts |-> Tiers(lo[1], lo[2])]
FirstParsingOf == [lo \in LastTexts |-> FirstParsing(lo[1], lo[2])]
LargestOfFirstTierOf == [lo \in LastTexts |-> LargestOfFirstTier(lo[1], lo[2])]
LastTextsOf(file) == <<LastPageText(file), OcrLastText(file)>>

\* C6: the value of a finished run is the first candidate, over the tiers
\* in their search order (labelled native lines, the other native
\* candidates, the OCR of the last page), that the parser accepts; it is
\* empty only when no candidate of any tier parses.
C6_FirstParsingCandidate ==
    pc = "return" => out.valor = FirstParsingOf[LastTextsOf(files[idx])]

\* C6 as the code has it: the value of a finished run is the largest parsing
\* candidate of the first tier that has any candidate (candidates on a
\* native line holding VALOR preferred); a tier whose candidates all fail
\* to parse leaves the value empty, the next tier is not consulted.
C6_LargestOfFirstTier ==
    pc = "return" => out.valor = LargestOfFirstTierOf[LastTextsOf(files[idx])]

\* a run whose labelled line holds two parsing candidates, the larger one
\* second, and a run whose only native candidates fail to parse while the
\* OCR of the last page holds parsing ones
C6_Witness ==
    /\ pc = "return"
    /\ \/ /\ Len(candidates) >= 2
          /\ Parses(candidates[1]) /\ Parses(candidates[2])
          /\ Less(try_parse_amount(candidates[1]), try_parse_amount(candidates[2]))
          /\ out.valor = FormatBR(try_parse_amount(candidates[2]))
       \/ /\ candidates # <<>>
          /\ \A k \in 1..Len(candidates) : ~Parses(candidates[k])
          /\ images # <<>>
          /\ \E c \in SeqToSet(TiersOf[LastTextsOf(files[idx])][4]) : Parses(c)
          /\ out.valor = <<>>

\* the identifier and the header date that the extractors find in a text
HeaderOf ==
    [txt \in OcrTexts \cup NativePageTexts |->
        [manifesto |-> extract_manifesto_destino_from_text(txt).manifesto,
         data |-> extract_data_hora_from_head(txt)[1]]]
NativeFields(file) ==
    IF read_pdf_text(file) = <<>>
    THEN [manifesto |-> <<>>, data |-> <<>>, destino |-> <<>>]
    ELSE [manifesto |-> ManifestoDestinoOf[JoinLines(read_pdf_text(file))].manifesto,
          data |-> DataHoraOf[read_pdf_text(file)[1]][1],
          destino |-> ManifestoDestinoOf[JoinLines(read_pdf_text(file))].destino]
QuickCallsOf(step) == {k \in 1..Len(quick_calls) : quick_calls[k][2] = step}

\* C9: a field the native text left unresolved gets an OCR attempt on its
\* page before the record is final, so a run whose first page reads, by OCR,
\* a valid identifier and a header date ends with both fields filled.
C9_EveryFieldFallsBack ==
    (/\ pc = "return" /\ images # <<>>
     /\ HeaderOf[ocr_texts_per_page[1]].manifesto # <<>>
     /\ HeaderOf[ocr_texts_per_page[1]].data # <<>>)
    => out.manifesto # <<>> /\ out.data # <<>>

\* C9 as the code has it: the identifier and the date of a finished run are
\* those of the native text, never of OCR; the value gets one OCR attempt
\* exactly when the native text of the last page gave no candidate, the
\* destination exactly when the native text gave none, both on the last
\* page and only when there is a page image.
C9_FallbackForValueAndDestination ==
    /\ field_src.manifesto # "ocr" /\ field_src.data # "ocr"
    /\ \A k \in QuickCallsOf("valor") \cup QuickCallsOf("destino") :
           quick_calls[k][1] = Len(images)
    /\ pc = "return" =>
         /\ out.manifesto = NativeFields(files[idx]).manifesto
         /\ out.data = NativeFields(files[idx]).data
         /\ Cardinality(QuickCallsOf("valor")) =
              IF NativeCandidatesOf[LastPageText(files[idx])] = <<>> /\ images # <<>>
              THEN 1 ELSE 0
         /\ Cardinality(QuickCallsOf("destino")) =
              IF NativeFields(files[idx]).destino = <<>> /\ images # <<>> THEN 1 ELSE 0

\* a run without native fields whose first page reads, by OCR, an identifier
\* and a date: the last page was read again for the value and for the
\* destination, the identifier and the date stay empty
C9_Witness ==
    /\ pc = "return" /\ images # <<>>
    /\ HeaderOf[ocr_texts_per_page[1]].manifesto # <<>>
    /\ HeaderOf[ocr_texts_per_page[1]].data # <<>>
    /\ QuickCallsOf("valor") # {} /\ QuickCallsOf("destino") # {}
    /\ out.manifesto = <<>> /\ out.data = <<>>

MinOcrLen == 10
RunsOn(page) == {k \in 1..Len(engine_calls) : engine_calls[k][1] = page}
RECURSIVE ExpectedRuns(_, _)
ExpectedRuns(file, calls) ==
    IF calls = <<>> THEN <<>>
    ELSE LET page == Head(calls)[1]
         IN  (IF Len(Strip(ToUpper(file.ocr[page].psm6))) < MinOcrLen
              THEN << <<page, 6>>, <<page, 3>> >> ELSE << <<page, 6>> >>)
             \o ExpectedRuns(file, Tail(calls))

\* C10: in the processing of one document the OCR engine runs at most twice
\* on any page, the last page included.
C10_AtMostTwicePerPage ==
    \A page \in 1..Len(images) : Cardinality(RunsOn(page)) <= 2

\* C10 as the code has it: every call of ocr_page_quick runs the engine with
\* psm 6 and, only when that text stripped is shorter than 10 characters,
\* once more with psm 3; a page other than the last is read by one call, so
\* at most twice; the last page is read by up to three calls (volumes,
\* value, destination), so at most six times.
C10_TwicePerCall ==
    /\ quick_calls # <<>> => engine_calls = ExpectedRuns(files[idx], quick_calls)
    /\ quick_calls = <<>> => engine_calls = <<>>
    /\ \A page \in 1..Len(images) :
         /\ Cardinality({k \in QuickCallsOf("volumes") : quick_calls[k][1] = page}) <= 1
         /\ page < Len(images) => Cardinality(RunsOn(page)) <= 2
         /\ Cardinality(RunsOn(page)) <= 6
    /\ Cardinality(QuickCallsOf("valor")) <= 1 /\ Cardinality(QuickCallsOf("destino")) <= 1

\* a run whose last page was read six times: twice by each of its three calls
C10_Witness ==
    /\ pc = "return" /\ images # <<>>
    /\ Cardinality(RunsOn(Len(images))) = 6

====
